---- MODULE Spec2Model ----
(***************************************************************************)
(* Model of the linx.js pagination session (BasePaginator and its button,  *)
(* select-menu and hybrid subclasses) as an event-driven state machine.    *)
(* Every asynchronous call of the code (reply, editReply, fetchReply,      *)
(* message.edit, message.delete, deferUpdate) is split at its await: the   *)
(* action that issues the call puts a record in `pending`, and a later     *)
(* action resolves it with success or failure and runs the continuation.   *)
(* Construction inputs are those that pass option validation (startPage a  *)
(* non-negative integer, data a non-empty array).                          *)
(***************************************************************************)
EXTENDS Integers, Sequences, FiniteSets, Bags, TLC

\* ------------------------------------------------------------------ bounds
MaxLen == 3          \* longest data collection
MaxStartPage == 2    \* largest startPage option
MaxStarts == 2       \* start() calls that get past the isActive guard
MaxCalls == 3        \* API calls and control activations per run
MaxInFlight == 2     \* asynchronous calls awaiting their resolution
MaxComponents == 6   \* longest list of components given to createActionRows

\* --------------------------------------------------------- program constants
MAX_MESSAGE_CONTENT_LENGTH == 2000
MAX_OPTION_TEXT_LENGTH == 100
MAX_BUTTON_PER_ROW == 5
MAX_ROWS_PER_MESSAGE == 5
START_PAGE == 0
DELETE_ON_TIMEOUT == TRUE
DEFAULT_TIMEOUT == 300000
INTERACTION_TOKEN_LIFETIME == 900000
MAX_SELECT_OPTIONS == 25
MAX_SELECT_PLACEHOLDER_LENGTH == 150
PLACEHOLDER_LENGTH == 16          \* 'Select a page...'
MIN_VALUES == 1
MAX_VALUES == 1
MAX_OPTIONS_PER_MENU == 25
DESCRIPTION_MAX_LENGTH == 50

\* ------------------------------------------------------------------- inputs
\* An item is a string, represented by its length.
LongItem == MAX_MESSAGE_CONTENT_LENGTH + 1
Plain(n) == [i \in 1..n |-> i]
WithLong(n) == [i \in 1..n |-> IF i = 2 THEN LongItem ELSE i]
DataSets == {Plain(1), Plain(MaxLen), WithLong(MaxLen)}

\* An optional field of the options object is <<>> (undefined) or <<v>>.
Undefined == <<>>
Kinds == {"button", "select", "hybrid"}
Reasons == {"user", "timeout", "error"}
Invoker == "invoker"
Actors == {Invoker, "other"}

\* the options objects handed to the constructor: none given; the options of
\* bot/src/commands/button.js, which asks for the first and last buttons; the
\* older deleteOnTimeout flag with a start page; no timeout at all
CallerOptions ==
  { [startPage |-> Undefined, timeout |-> Undefined,
     deleteOnTimeout |-> Undefined, afterTimeout |-> Undefined,
     showFirstLast |-> Undefined],
    [startPage |-> Undefined, timeout |-> <<60000>>,
     deleteOnTimeout |-> Undefined, afterTimeout |-> <<"disable">>,
     showFirstLast |-> <<TRUE>>],
    [startPage |-> <<MaxStartPage>>, timeout |-> Undefined,
     deleteOnTimeout |-> <<FALSE>>, afterTimeout |-> Undefined,
     showFirstLast |-> Undefined],
    [startPage |-> <<MaxStartPage>>, timeout |-> <<0>>,
     deleteOnTimeout |-> Undefined, afterTimeout |-> Undefined,
     showFirstLast |-> Undefined] }

VARIABLES
  kind,           \* which subclass the session is
  callerOptions,  \* the options object the caller passed
  options,        \* this.options after the merge with the defaults
  state,          \* this.state
  collector,      \* this.collector: 0 (undefined) or the id of a collector
  timers,         \* ids of the setTimeout callbacks still scheduled
  liveCollectors, \* ids of the collectors that have not ended
  children,       \* hybrid only: the two child paginators
  replied,        \* interaction.replied || interaction.deferred
  shown,          \* the message as the transport holds it
  pending,        \* bag of asynchronous calls awaiting resolution
  events,         \* events emitted by the session, in order
  childEvents,    \* events emitted by the child paginators
  starts,         \* start() calls that got past the isActive guard
  optionSets,     \* buttonOptions, selectMenuOptions and hybridOptions
  currentConfig,  \* the module-level configuration
  builtin,        \* the defaultConfig object: its content now, and the
                  \* sections of it that currentConfig holds by reference
  built,          \* the last call of ComponentBuilder.createActionRows: the
                  \* components it was given and the rows it returned
  hist,           \* observations about the run, not program state: the
                  \* stop() calls made, whether a collector ended by itself,
                  \* the last call that returned to its caller and how
  calls           \* API calls and control activations so far

progVars == <<kind, callerOptions, options, state, collector, timers,
              liveCollectors, children, replied, shown, pending, events,
              childEvents, starts, optionSets, currentConfig, builtin,
              built>>
\* the variables of the session and of the configuration module
progVarsOfSession ==
  <<kind, callerOptions, options, state, collector, timers, liveCollectors,
    children, replied, shown, pending, events, childEvents, starts, optionSets,
    currentConfig, builtin>>
vars == <<kind, callerOptions, options, state, collector, timers,
          liveCollectors, children, replied, shown, pending, events,
          childEvents, starts, optionSets, currentConfig, builtin, built,
          hist, calls>>

\* ------------------------------------------------------------------ helpers
Min(a, b) == IF a < b THEN a ELSE b
Max(a, b) == IF a > b THEN a ELSE b
OrElse(v, d) == IF v = Undefined THEN d ELSE v[1]   \* v ?? d

Ev(name, reason, page, old) ==
  [name |-> name, reason |-> reason, page |-> page, old |-> old]
NoCall == [call |-> "", out |-> ""]
NoCtl == [type |-> "none", id |-> "", values |-> <<>>]
Op(op, page, old, src, ctl, id) ==
  [op |-> op, page |-> page, oldPage |-> old, src |-> src, ctl |-> ctl, id |-> id]

\* The whole mutable world as one record, so that the methods of the code
\* can be written as functions and composed the way the code calls them.
World ==
  [ state |-> state, collector |-> collector, timers |-> timers,
    liveCollectors |-> liveCollectors, children |-> children,
    replied |-> replied, shown |-> shown, pending |-> pending,
    events |-> events, childEvents |-> childEvents, starts |-> starts,
    optionSets |-> optionSets, currentConfig |-> currentConfig,
    builtin |-> builtin,
    hist |-> hist ]

Commit(w) ==
  /\ state' = w.state
  /\ collector' = w.collector
  /\ timers' = w.timers
  /\ liveCollectors' = w.liveCollectors
  /\ children' = w.children
  /\ replied' = w.replied
  /\ shown' = w.shown
  /\ pending' = w.pending
  /\ events' = w.events
  /\ childEvents' = w.childEvents
  /\ starts' = w.starts
  /\ optionSets' = w.optionSets
  /\ currentConfig' = w.currentConfig
  /\ builtin' = w.builtin
  /\ hist' = w.hist
  /\ UNCHANGED <<kind, callerOptions, options, built>>

emit(w, e) == [w EXCEPT !.events = Append(@, e)]
await(w, op) == [w EXCEPT !.pending = @ (+) SetToBag({op})]
resume(w, op) == [w EXCEPT !.pending = @ (-) SetToBag({op})]
InFlight == BagCardinality(pending)

\* an error event carries the class of the LinxError it reports
ErrorEv(cls) == Ev("error", cls, -1, -1)
\* what a method hands back: the world after it, how it returned
\* ("ok", "noop", "await" at an asynchronous call, "throw") and the error
Ret(w, out) == [w |-> w, out |-> out, err |-> ""]
Throw(w, cls) == [w |-> w, out |-> "throw", err |-> cls]

\* --------------------------------------------------------------- constructor
Given(v) == v # Undefined

ChildNames(k) == IF k = "hybrid" THEN {"button", "select"} ELSE {}

\* the sections of the configuration, and the configuration as it is written
Sections == {"emojis", "defaults", "messages"}
defaultConfig ==
  [ emojis |-> [previous |-> "<:linx_prev:1>"],
    defaults |-> [timeout |-> DEFAULT_TIMEOUT, ephemeral |-> FALSE],
    messages |-> [timeout |-> "This pagination has timed out."] ]

\* the callers of the model leave ephemeral to the configuration
mergeOptions(o, config) ==
  [ timeout |-> OrElse(o.timeout, config.defaults.timeout),
    ephemeral |-> config.defaults.ephemeral,
    startPage |-> OrElse(o.startPage, START_PAGE),
    deleteOnTimeout |-> OrElse(o.deleteOnTimeout, DELETE_ON_TIMEOUT) ]

validateSelectPlaceholder(len) == len <= MAX_SELECT_PLACEHOLDER_LENGTH
validateSelectValues(minValues, maxValues) ==
  minValues >= 1 /\ maxValues >= minValues /\ maxValues <= MAX_SELECT_OPTIONS
validMaxOptionsPerMenu(v) == v >= 1 /\ v <= MAX_SELECT_OPTIONS

validateSelectMenuOptions(n) ==
  /\ Given(n.placeholder) => validateSelectPlaceholder(n.placeholder[1])
  /\ (Given(n.minValues) /\ Given(n.maxValues))
       => validateSelectValues(n.minValues[1], n.maxValues[1])
  /\ Given(n.maxOptionsPerMenu) => validMaxOptionsPerMenu(n.maxOptionsPerMenu[1])

\* a LabelOption: 'PageNumbers', 'CustomLabels' or ['CustomNumbers', prefix,
\* suffix] (an absent prefix or suffix is the empty string)
PageNumbers == [style |-> "PageNumbers", prefix |-> "", suffix |-> ""]
CustomLabels == [style |-> "CustomLabels", prefix |-> "", suffix |-> ""]
CustomNumbers(prefix, suffix) ==
  [style |-> "CustomNumbers", prefix |-> prefix, suffix |-> suffix]

\* parseLabelOption: the labelling type, or a throw for CustomNumbers with
\* neither prefix nor suffix
parseLabelOption(labelOption) ==
  CASE labelOption.style = "PageNumbers" ->
         [ok |-> TRUE, type |-> "page-numbers", prefix |-> "", suffix |-> ""]
    [] labelOption.style = "CustomLabels" ->
         [ok |-> TRUE, type |-> "custom-labels", prefix |-> "", suffix |-> ""]
    [] OTHER ->
         [ok |-> labelOption.prefix # "" \/ labelOption.suffix # "",
          type |-> "custom-numbers",
          prefix |-> labelOption.prefix, suffix |-> labelOption.suffix]

\* the options of SelectMenuPaginationOptions the model follows, none given
NoSelectOptions ==
  [placeholder |-> Undefined, minValues |-> Undefined, maxValues |-> Undefined,
   maxOptionsPerMenu |-> Undefined, descriptionMaxLength |-> Undefined,
   labelOption |-> Undefined, customLabelRenderer |-> Undefined]

\* the SelectMenuPaginator constructor: it throws for CustomLabels without a
\* renderer and for a label option that does not parse, and checks nothing else
selectConstructs(given) ==
  LET parsed == parseLabelOption(OrElse(given.labelOption, PageNumbers))
  IN /\ parsed.ok
     /\ parsed.type = "custom-labels" => Given(given.customLabelRenderer)

selectMenuOptionsOf(given) ==
  LET parsed == parseLabelOption(OrElse(given.labelOption, PageNumbers))
  IN [placeholder |-> OrElse(given.placeholder, PLACEHOLDER_LENGTH),
      minValues |-> OrElse(given.minValues, MIN_VALUES),
      maxValues |-> OrElse(given.maxValues, MAX_VALUES),
      maxOptionsPerMenu |-> OrElse(given.maxOptionsPerMenu, MAX_OPTIONS_PER_MENU),
      descriptionMaxLength |->
        OrElse(given.descriptionMaxLength, DESCRIPTION_MAX_LENGTH),
      labelOption |-> OrElse(given.labelOption, PageNumbers),
      customLabelRenderer |-> given.customLabelRenderer,
      labelConfig |->
        [type |-> parsed.type, prefix |-> parsed.prefix, suffix |-> parsed.suffix,
         customRenderer |-> IF parsed.type = "custom-labels"
                            THEN given.customLabelRenderer ELSE Undefined]]

\* the option sets the subclasses build in their constructors from the
\* caller's select menu options (the other subclass options are not passed)
optionSetsOf(given) ==
  [ button |-> [buttonStyle |-> "Primary", showPageCounter |-> TRUE],
    select |-> selectMenuOptionsOf(given),
    hybrid |-> [layout |-> "buttons-top", enableButtons |-> TRUE,
                enableSelectMenu |-> TRUE] ]

initialOptionSets == optionSetsOf(NoSelectOptions)

\* validatePaginationData that accepts every array
validatePaginationData_any(data) == TRUE

\* the constructor's validatePaginationData(data): a session exists only for a
\* collection that passes it
validatePaginationData(data) == Len(data) # 0

InitialDataSets == (DataSets \ {Plain(1)}) \cup {<<>>}

initialState(o, data) ==
  [ currentPage |-> Min(o.startPage, Len(data) - 1),
    totalPages |-> Len(data),
    isActive |-> FALSE,
    message |-> FALSE,
    data |-> data,
    timeoutId |-> 0 ]

\* the state after new ButtonPaginator / SelectMenuPaginator / HybridPaginator
\* (interaction, data, options) returned; given: the select menu options passed
Constructed(kinds, callers, dataSets, givens) ==
  /\ kind \in kinds
  /\ callerOptions \in callers
  /\ options = mergeOptions(callerOptions, defaultConfig)
  /\ \E data \in dataSets :
       /\ validatePaginationData(data)
       /\ state = initialState(options, data)
       /\ children = [c \in ChildNames(kind) |-> initialState(options, data)]
  /\ \E given \in givens :
       /\ kind = "hybrid" => validateSelectMenuOptions(given)
       /\ kind # "button" => selectConstructs(given)
       /\ optionSets = optionSetsOf(given)
  /\ collector = 0
  /\ timers = {}
  /\ liveCollectors = {}
  /\ replied = FALSE
  /\ shown = [page |-> -1, disabled |-> FALSE, notice |-> FALSE,
              deleted |-> FALSE]
  /\ pending = EmptyBag
  /\ events = <<>>
  /\ childEvents = [c \in ChildNames(kind) |-> <<>>]
  /\ starts = 0
  /\ currentConfig = defaultConfig
  /\ builtin = [config |-> defaultConfig, shared |-> Sections]
  /\ built = [components |-> <<>>, rows |-> <<>>]
  /\ hist = [stops |-> 0, collectorEnded |-> FALSE, last |-> NoCall]
  /\ calls = 0

Init == Constructed(Kinds, CallerOptions, InitialDataSets, {NoSelectOptions})

\* ------------------------------------------------------------------ rendering
\* The default page renderer returns a string item as it is, and
\* validateMessageContent rejects content above the platform's length cap.
\* An index outside the data renders as "Page n: undefined" and is accepted.
RenderThrows(w) ==
  LET i == w.state.currentPage + 1
  IN i \in DOMAIN w.state.data /\ w.state.data[i] > MAX_MESSAGE_CONTENT_LENGTH

renderCurrentPage(w) ==
  IF RenderThrows(w) THEN Throw(emit(w, ErrorEv("validation")), "render")
  ELSE Ret(w, "ok")

\* a coordinator that leaves its children's views as they are
syncStateToChildren_none(w) == w

syncStateToChildren(w) ==
  [w EXCEPT !.children =
     [c \in DOMAIN @ |-> [@[c] EXCEPT !.currentPage = w.state.currentPage,
                                      !.totalPages = w.state.totalPages,
                                      !.data = w.state.data]]]

\* HybridPaginator.buildComponents syncs its children before it renders them.
buildComponents(w) == IF kind = "hybrid" THEN syncStateToChildren(w) ELSE w

\* buildComponents that creates an option for every page
maxOptions_uncapped(st, so) == st.totalPages

\* the number of options SelectMenuPaginator.buildComponents creates
maxOptions(st, so) == Min(st.totalPages, so.maxOptionsPerMenu)

showsMenu(w) ==
  kind = "select" \/ (kind = "hybrid" /\ w.optionSets.hybrid.enableSelectMenu)

\* SelectMenuPaginator.buildComponents throws when it created no option
ComponentsThrow(w) ==
  showsMenu(w) /\ maxOptions(w.state, w.optionSets.select) <= 0

buildMessagePayload(w) ==
  LET r == renderCurrentPage(w)
  IN IF r.out = "throw" THEN r
     ELSE IF ComponentsThrow(r.w) THEN Throw(r.w, "component")
     ELSE Ret(buildComponents(r.w), "ok")

\* --------------------------------------------------------------------- stop
\* a child's stop without its isActive guard
stopChild_unguarded(w, c, reason) ==
  [w EXCEPT !.children[c].isActive = FALSE,
            !.children[c].timeoutId = 0,
            !.childEvents[c] =
               Append(@, Ev("end", reason, w.children[c].currentPage, -1))]

\* BasePaginator.stop, also run on a child paginator's own state and emitter.
stopChild(w, c, reason) ==
  IF ~w.children[c].isActive THEN w
  ELSE [w EXCEPT !.children[c].isActive = FALSE,
                 !.children[c].timeoutId = 0,
                 !.childEvents[c] =
                    Append(@, Ev("end", reason, w.children[c].currentPage, -1))]

\* stop without its isActive guard
baseStop_unguarded(w, reason) ==
  emit([w EXCEPT !.state.isActive = FALSE,
                 !.timers = IF w.state.timeoutId # 0
                            THEN @ \ {w.state.timeoutId} ELSE @,
                 !.state.timeoutId = 0,
                 !.liveCollectors = @ \ {w.collector}],
       Ev("end", reason, w.state.currentPage, -1))

baseStop(w, reason) ==
  IF ~w.state.isActive THEN w
  ELSE emit([w EXCEPT !.state.isActive = FALSE,
                      !.timers = IF w.state.timeoutId # 0
                                 THEN @ \ {w.state.timeoutId} ELSE @,
                      !.state.timeoutId = 0,
                      !.liveCollectors = @ \ {w.collector}],
            Ev("end", reason, w.state.currentPage, -1))

\* HybridPaginator.stop: super.stop, then both children.
stop(w, reason) ==
  IF kind = "hybrid"
  THEN stopChild(stopChild(baseStop(w, reason), "button", reason), "select", reason)
  ELSE baseStop(w, reason)

\* -------------------------------------------------------------------- start
setupTimeout(w, id) ==
  IF options.timeout <= 0 THEN w
  ELSE [w EXCEPT !.state.timeoutId = id, !.timers = @ \cup {id}]

setupCollector(w, id) ==
  IF ~w.state.message THEN w
  ELSE [w EXCEPT !.collector = id, !.liveCollectors = @ \cup {id}]

\* the catch block of start()
startFailed(w, cls) ==
  Throw(emit([w EXCEPT !.state.isActive = FALSE], ErrorEv(cls)), cls)

\* start without its isActive guard
start_unguarded(w) ==
  LET w1 == [w EXCEPT !.state.isActive = TRUE, !.starts = @ + 1]
      p == buildMessagePayload(w1)
  IN IF p.out = "throw" THEN startFailed(p.w, p.err)
     ELSE Ret(await(p.w, Op("send", w1.state.currentPage, -1,
                            IF w.replied THEN "editReply" ELSE "reply",
                            NoCtl, w1.starts)),
              "await")

start(w) ==
  IF w.state.isActive THEN Throw(w, "validation")
  ELSE LET w1 == [w EXCEPT !.state.isActive = TRUE, !.starts = @ + 1]
           p == buildMessagePayload(w1)
       IN IF p.out = "throw" THEN startFailed(p.w, p.err)
          ELSE Ret(await(p.w, Op("send", w1.state.currentPage, -1,
                                 IF w.replied THEN "editReply" ELSE "reply",
                                 NoCtl, w1.starts)),
                   "await")

\* start() from the point where the Message is known
startDelivered(w, id) ==
  LET w1 == [w EXCEPT !.state.message = TRUE]
      w2 == setupCollector(setupTimeout(w1, id), id)
  IN Ret(emit(w2, Ev("start", "", w2.state.currentPage, -1)), "ok")

accept(w, page) ==
  [w EXCEPT !.shown = [page |-> page, disabled |-> FALSE, notice |-> FALSE,
                       deleted |-> FALSE],
            !.replied = TRUE]

\* start() resumed after reply / editReply
startSent(w, op, ok) ==
  IF ~ok THEN startFailed(w, "api")
  ELSE IF op.src = "editReply" THEN startDelivered(accept(w, op.page), op.id)
  ELSE Ret(await(accept(w, op.page), [op EXCEPT !.op = "fetch"]), "await")

\* start() resumed after fetchReply
startFetched(w, op, ok) ==
  IF ~ok THEN startFailed(w, "api") ELSE startDelivered(w, op.id)

\* ------------------------------------------------------------------ timeout
\* handleTimeout without its 'timeout' event
handleTimeout_silent(w) ==
  IF options.deleteOnTimeout /\ w.state.message
  THEN Ret(await(w, Op("tdelete", -1, -1, "", NoCtl, 0)), "await")
  ELSE IF w.state.message
  THEN LET p == buildMessagePayload(w)
       IN IF p.out = "throw"
          THEN Ret(stop(emit(p.w, ErrorEv(p.err)), "timeout"), "ok")
          ELSE Ret(await(p.w, Op("tedit", w.state.currentPage, -1, "",
                                 NoCtl, 0)), "await")
  ELSE Ret(stop(w, "timeout"), "ok")

handleTimeout(w) ==
  LET w1 == emit(w, Ev("timeout", "", w.state.currentPage, -1))
  IN IF options.deleteOnTimeout /\ w1.state.message
     THEN Ret(await(w1, Op("tdelete", -1, -1, "", NoCtl, 0)), "await")
     ELSE IF w1.state.message
     THEN LET p == buildMessagePayload(w1)
          IN IF p.out = "throw"
             THEN Ret(stop(emit(p.w, ErrorEv(p.err)), "timeout"), "ok")
             ELSE Ret(await(p.w, Op("tedit", w1.state.currentPage, -1, "",
                                    NoCtl, 0)), "await")
     ELSE Ret(stop(w1, "timeout"), "ok")

\* handleTimeout resumed after message.delete() / message.edit(); a failure
\* of either is swallowed, and the finally block stops the session.
handleTimeoutDone(w, op, ok) ==
  LET w1 == IF ~ok THEN w
            ELSE IF op.op = "tdelete" THEN [w EXCEPT !.shown.deleted = TRUE]
            ELSE [w EXCEPT !.shown = [page |-> op.page, disabled |-> TRUE,
                                      notice |-> TRUE, deleted |-> FALSE]]
  IN Ret(stop(w1, "timeout"), "ok")

handleCollectorEnd(w) ==
  IF w.state.isActive THEN stop(w, "timeout") ELSE w

\* --------------------------------------------------------------- navigation
validatePageNumber(page, totalPages) == page >= 0 /\ page < totalPages

hasNextPage(w) == w.state.currentPage < w.state.totalPages - 1
hasPreviousPage(w) == w.state.currentPage > 0

\* the subclass's override runs syncStateToChildren after the base method
afterNavigation(w) == IF kind = "hybrid" THEN syncStateToChildren(w) ELSE w

goToPage(w, page, src) ==
  IF ~w.state.isActive THEN Throw(w, "validation")
  ELSE IF ~validatePageNumber(page, w.state.totalPages) THEN Throw(w, "validation")
  ELSE LET oldPage == w.state.currentPage
           w1 == [w EXCEPT !.state.currentPage = page]
       IN IF ~w1.state.message
          THEN Ret(afterNavigation(emit(w1, Ev("pageChange", "", page, oldPage))),
                   "ok")
          ELSE LET p == buildMessagePayload(w1)
               IN IF p.out = "throw"
                  THEN Throw([p.w EXCEPT !.state.currentPage = oldPage], p.err)
                  ELSE Ret(await(p.w, Op("goto", page, oldPage, src, NoCtl, 0)),
                           "await")

\* goToPage whose catch block does not restore the page
goToPageDone_noRollback(w, op, ok) ==
  IF ok
  THEN Ret(afterNavigation(emit(accept(w, op.page),
                                Ev("pageChange", "", op.page, op.oldPage))), "ok")
  ELSE Throw(w, "api")

\* goToPage resumed after message.edit()
goToPageDone(w, op, ok) ==
  IF ok
  THEN Ret(afterNavigation(emit(accept(w, op.page),
                                Ev("pageChange", "", op.page, op.oldPage))), "ok")
  ELSE Throw([w EXCEPT !.state.currentPage = op.oldPage], "api")

\* nextPage without the hasNextPage() test
nextPage_unguarded(w, src) == goToPage(w, w.state.currentPage + 1, src)

nextPage(w, src) ==
  IF w.state.currentPage < w.state.totalPages - 1
  THEN goToPage(w, w.state.currentPage + 1, src)
  ELSE Ret(afterNavigation(w), "noop")

previousPage(w, src) ==
  IF w.state.currentPage > 0
  THEN goToPage(w, w.state.currentPage - 1, src)
  ELSE Ret(afterNavigation(w), "noop")

firstPage(w, src) == goToPage(w, 0, src)

lastPage(w, src) == goToPage(w, w.state.totalPages - 1, src)

\* --------------------------------------------------------------- updateData
\* updateData that keeps the page where it was
baseUpdateData_noClamp(st, newData) ==
  [st EXCEPT !.data = newData, !.totalPages = Len(newData)]

baseUpdateData(st, newData) ==
  [st EXCEPT !.data = newData,
             !.totalPages = Len(newData),
             !.currentPage = IF @ >= Len(newData)
                             THEN Max(0, Len(newData) - 1) ELSE @]

updateData(w, newData) ==
  IF ~validatePaginationData(newData) THEN Throw(w, "validation")
  ELSE LET w1 == [w EXCEPT !.state = baseUpdateData(@, newData)]
           p == buildMessagePayload(w1)
           w2 == IF ~w1.state.isActive \/ ~w1.state.message THEN w1
                 ELSE IF p.out = "throw" THEN emit(p.w, ErrorEv(p.err))
                 ELSE await(p.w, Op("update", w1.state.currentPage, -1, "",
                                    NoCtl, 0))
           w3 == IF kind = "hybrid"
                 THEN syncStateToChildren(
                        [w2 EXCEPT !.children =
                           [c \in DOMAIN @ |-> baseUpdateData(@[c], newData)]])
                 ELSE w2
       IN Ret(w3, "ok")

\* updateData's updateMessage() resolved; a failure goes to the error event
updateDone(w, op, ok) ==
  IF ok THEN Ret(accept(w, op.page), "ok") ELSE Ret(emit(w, ErrorEv("api")), "ok")

\* ----------------------------------------------------------- option updates
\* this.updateMessage().catch(error => this.emit('error', ...)), not awaited
refresh(w) ==
  IF ~w.state.message THEN w
  ELSE LET p == buildMessagePayload(w)
       IN IF p.out = "throw" THEN emit(p.w, ErrorEv(p.err))
          ELSE await(p.w, Op("update", w.state.currentPage, -1, "", NoCtl, 0))

ButtonStyles == {"Primary", "Secondary", "Success", "Danger", "Link"}
validateButtonOptions(n) ==
  Given(n.buttonStyle) => n.buttonStyle[1] \in ButtonStyles

updateButtonOptions(w, n) ==
  IF ~w.state.isActive THEN Throw(w, "validation")
  ELSE IF ~validateButtonOptions(n) THEN Throw(w, "validation")
  ELSE Ret(refresh([w EXCEPT !.optionSets.button =
                      [@ EXCEPT !.buttonStyle = OrElse(n.buttonStyle, @),
                                !.showPageCounter = OrElse(n.showPageCounter, @)]]),
           "ok")


\* each option is checked and assigned in turn, so a throw leaves the
\* assignments made before it
updateSelectMenuOptions(w, n) ==
  IF ~w.state.isActive THEN Throw(w, "validation")
  ELSE
    LET o0 == w.optionSets.select
        bad1 == Given(n.placeholder) /\ ~validateSelectPlaceholder(n.placeholder[1])
        o1 == [o0 EXCEPT !.placeholder = OrElse(n.placeholder, @)]
        both == Given(n.minValues) /\ Given(n.maxValues)
        bad2 == both /\ ~validateSelectValues(n.minValues[1], n.maxValues[1])
        o2 == IF both THEN [o1 EXCEPT !.minValues = n.minValues[1],
                                      !.maxValues = n.maxValues[1]]
              ELSE o1
        bad3 == Given(n.maxOptionsPerMenu)
                  /\ ~validMaxOptionsPerMenu(n.maxOptionsPerMenu[1])
        o3 == [o2 EXCEPT !.maxOptionsPerMenu = OrElse(n.maxOptionsPerMenu, @)]
        parsed == parseLabelOption(n.labelOption[1])
        badLabel == Given(n.labelOption) /\ ~parsed.ok
        oL == IF Given(n.labelOption)
              THEN [o3 EXCEPT !.labelOption = n.labelOption[1],
                              !.labelConfig =
                                 [type |-> parsed.type, prefix |-> parsed.prefix,
                                  suffix |-> parsed.suffix,
                                  customRenderer |-> Undefined]]
              ELSE o3
        oR == IF Given(n.customLabelRenderer)
                   /\ oL.labelConfig.type = "custom-labels"
              THEN [oL EXCEPT !.labelConfig.customRenderer = n.customLabelRenderer,
                              !.customLabelRenderer = n.customLabelRenderer]
              ELSE oL
        bad4 == Given(n.descriptionMaxLength) /\ n.descriptionMaxLength[1] < 1
        o4 == [oR EXCEPT !.descriptionMaxLength = OrElse(n.descriptionMaxLength, @)]
        set(o) == [w EXCEPT !.optionSets.select = o]
    IN IF bad1 THEN Throw(w, "validation")
       ELSE IF bad2 THEN Throw(set(o1), "validation")
       ELSE IF bad3 THEN Throw(set(o2), "validation")
       ELSE IF badLabel THEN Throw(set(o3), "validation")
       ELSE IF bad4 THEN Throw(set(oR), "validation")
       ELSE Ret(refresh(set(o4)), "ok")

Layouts == {"buttons-top", "buttons-bottom", "select-top", "select-bottom"}
validateHybridOptions(n) ==
  /\ Given(n.layout) => n.layout[1] \in Layouts
  /\ Given(n.buttonOptions) => validateButtonOptions(n.buttonOptions[1])
  /\ Given(n.selectMenuOptions) => validateSelectMenuOptions(n.selectMenuOptions[1])

\* The child paginators are never started, so updateButtonOptions and
\* updateSelectMenuOptions of a child throw at their isActive guard.
updateHybridOptions(w, n) ==
  IF ~w.state.isActive THEN Throw(w, "validation")
  ELSE IF ~validateHybridOptions(n) THEN Throw(w, "validation")
  ELSE
    LET w1 == [w EXCEPT !.optionSets.hybrid =
                 [@ EXCEPT !.layout = OrElse(n.layout, @),
                           !.enableButtons = OrElse(n.enableButtons, @),
                           !.enableSelectMenu = OrElse(n.enableSelectMenu, @)]]
        h == w1.optionSets.hybrid
    IN IF ~h.enableButtons /\ ~h.enableSelectMenu THEN Throw(w1, "validation")
       ELSE IF Given(n.buttonOptions) /\ ~w1.children["button"].isActive
       THEN Throw(w1, "validation")
       ELSE IF Given(n.selectMenuOptions) /\ ~w1.children["select"].isActive
       THEN Throw(w1, "validation")
       ELSE Ret(refresh(w1), "ok")

NoHybridOptions ==
  [layout |-> Undefined, enableButtons |-> Undefined,
   enableSelectMenu |-> Undefined, buttonOptions |-> Undefined,
   selectMenuOptions |-> Undefined]

setButtonsEnabled(w, enabled) ==
  updateHybridOptions(w, [NoHybridOptions EXCEPT !.enableButtons = <<enabled>>])

setSelectMenuEnabled(w, enabled) ==
  updateHybridOptions(w, [NoHybridOptions EXCEPT !.enableSelectMenu = <<enabled>>])

\* ------------------------------------------------------------- configuration
ValidEmojis == {"<:linx_prev:1>", "<:linx_back:2>"}
validateEmojis(emojis) == emojis.previous \in ValidEmojis
validateTimeout(timeout) == timeout >= 0 /\ timeout <= INTERACTION_TOKEN_LIFETIME
validateDefaults(defaults) == validateTimeout(defaults.timeout)

\* each section is validated and merged in turn; validateMessages accepts
\* every string
configureLinx(w, config) ==
  LET c0 == w.currentConfig
      bad1 == Given(config.emojis) /\ ~validateEmojis(config.emojis[1])
      c1 == [c0 EXCEPT !.emojis = OrElse(config.emojis, @)]
      bad2 == Given(config.defaults) /\ ~validateDefaults(config.defaults[1])
      c2 == [c1 EXCEPT !.defaults.timeout =
                         IF Given(config.defaults)
                         THEN config.defaults[1].timeout ELSE @]
      c3 == [c2 EXCEPT !.messages = OrElse(config.messages, @)]
      given == {section \in Sections : Given(config[section])}
      set(c, merged) == [w EXCEPT !.currentConfig = c,
                                  !.builtin.shared = @ \ merged]
  IN IF bad1 THEN Throw(w, "validation")
     ELSE IF bad2 THEN Throw(set(c1, given \cap {"emojis"}), "validation")
     ELSE Ret(set(c3, given), "ok")

\* resetLinxConfig: currentConfig = { ...defaultConfig }, a copy of the object
\* whose sections are the sections of defaultConfig themselves
resetLinxConfig(w) ==
  [w EXCEPT !.currentConfig = w.builtin.config, !.builtin.shared = Sections]

\* an assignment to a field of a section of currentConfig, which writes the
\* defaultConfig object too while the section is shared with it
\* (setTimeout: defaults.timeout, setEphemeral: defaults.ephemeral)
setDefault(w, field, value) ==
  [w EXCEPT !.currentConfig.defaults[field] = value,
            !.builtin.config.defaults[field] =
               IF "defaults" \in w.builtin.shared THEN value ELSE @]

\* setEmojis: currentConfig.emojis = { ...currentConfig.emojis, ...emojis }
setEmojis(w, emojis) ==
  [w EXCEPT !.currentConfig.emojis = emojis,
            !.builtin.shared = @ \ {"emojis"}]

\* ------------------------------------------------------- interaction routing
BUTTON_PREVIOUS == "linx_btn_prev"
BUTTON_NEXT == "linx_btn_next"
BUTTON_FIRST == "linx_btn_first"
BUTTON_LAST == "linx_btn_last"
CounterId == "linx_counter_1"     \* `linx_counter_${Date.now()}`
OwnMenuId == "linx_select_1"      \* `linx_select_${Date.now()}`
ButtonIds == {BUTTON_PREVIOUS, BUTTON_NEXT, BUTTON_FIRST, BUTTON_LAST,
              CounterId, "linx_btn_stop"}

\* a string is a sequence of characters
DigitChar(n) == CASE n = 0 -> "0" [] n = 1 -> "1" [] n = 2 -> "2" [] n = 3 -> "3"
                  [] n = 4 -> "4" [] n = 5 -> "5" [] n = 6 -> "6" [] n = 7 -> "7"
                  [] n = 8 -> "8" [] OTHER -> "9"
IsDigit(c) == \E n \in 0..9 : c = DigitChar(n)
DigitVal(c) == CHOOSE n \in 0..9 : c = DigitChar(n)

\* parseInt(s, 10): an optional sign and the longest prefix of digits;
\* NaN when there is no digit
RECURSIVE digitsValue(_, _)
digitsValue(s, acc) ==
  IF s = <<>> \/ ~IsDigit(Head(s)) THEN acc
  ELSE digitsValue(Tail(s), 10 * acc + DigitVal(Head(s)))

parseInt(s) ==
  LET neg == s # <<>> /\ Head(s) = "-"
      body == IF s # <<>> /\ Head(s) \in {"-", "+"} THEN Tail(s) ELSE s
  IN IF body = <<>> \/ ~IsDigit(Head(body)) THEN [nan |-> TRUE, val |-> 0]
     ELSE [nan |-> FALSE,
           val |-> IF neg THEN 0 - digitsValue(body, 0) ELSE digitsValue(body, 0)]

ButtonControls == {[type |-> "button", id |-> i, values |-> <<>>] : i \in ButtonIds}
SelectValues == {<<>>} \cup {<<<<DigitChar(n)>>>> : n \in {0, MaxLen - 1, MaxLen}}
                  \cup {<<<<"x">>>>}
SelectControls ==
  {[type |-> "select", id |-> OwnMenuId, values |-> v] : v \in SelectValues}
    \cup {[type |-> "select", id |-> "other_menu", values |-> <<<<"0">>>>]}
Controls(k) == CASE k = "button" -> ButtonControls
                 [] k = "select" -> SelectControls
                 [] OTHER -> ButtonControls \cup SelectControls

\* the switch whose default branch reports nothing
dispatchButton_silent(w, ctl) ==
  CASE ctl.id = BUTTON_PREVIOUS ->
         IF hasPreviousPage(w) THEN previousPage(w, "control") ELSE Ret(w, "noop")
    [] ctl.id = BUTTON_NEXT ->
         IF hasNextPage(w) THEN nextPage(w, "control") ELSE Ret(w, "noop")
    [] ctl.id = BUTTON_FIRST ->
         IF hasPreviousPage(w) THEN firstPage(w, "control") ELSE Ret(w, "noop")
    [] ctl.id = BUTTON_LAST ->
         IF hasNextPage(w) THEN lastPage(w, "control") ELSE Ret(w, "noop")
    [] OTHER -> Ret(w, "noop")

\* the switch of ButtonPaginator.handleComponentInteraction and of
\* HybridPaginator.handleButtonInteraction
dispatchButton(w, ctl) ==
  CASE ctl.id = BUTTON_PREVIOUS ->
         IF hasPreviousPage(w) THEN previousPage(w, "control") ELSE Ret(w, "noop")
    [] ctl.id = BUTTON_NEXT ->
         IF hasNextPage(w) THEN nextPage(w, "control") ELSE Ret(w, "noop")
    [] ctl.id = BUTTON_FIRST ->
         IF hasPreviousPage(w) THEN firstPage(w, "control") ELSE Ret(w, "noop")
    [] ctl.id = BUTTON_LAST ->
         IF hasNextPage(w) THEN lastPage(w, "control") ELSE Ret(w, "noop")
    [] OTHER ->
         IF ctl.id # CounterId THEN Ret(emit(w, ErrorEv("component")), "ok")
         ELSE Ret(w, "noop")

\* the body of SelectMenuPaginator.handleComponentInteraction and of
\* HybridPaginator.handleSelectMenuInteraction after the acknowledgement
\* a selector handler that hands every selected value to goToPage unchecked
dispatchSelect_unchecked(w, ctl) ==
  IF ctl.id # OwnMenuId THEN Ret(emit(w, ErrorEv("component")), "ok")
  ELSE IF Len(ctl.values) = 0 THEN Ret(w, "noop")
  ELSE goToPage(w, parseInt(ctl.values[1]).val, "control")

dispatchSelect(w, ctl) ==
  IF ctl.id # OwnMenuId THEN Ret(emit(w, ErrorEv("component")), "ok")
  ELSE IF Len(ctl.values) = 0 THEN Ret(w, "noop")
  ELSE LET selectedPage == parseInt(ctl.values[1])
       IN IF selectedPage.nan \/ selectedPage.val < 0
             \/ selectedPage.val >= w.state.totalPages
          THEN Ret(emit(w, ErrorEv("component")), "ok")
          ELSE IF selectedPage.val # w.state.currentPage
          THEN goToPage(w, selectedPage.val, "control")
          ELSE Ret(w, "noop")

\* a handler whose catch block also stops the session
caught_stops(r) ==
  IF r.out = "throw" THEN Ret(stop(emit(r.w, ErrorEv(r.err)), "error"), "ok")
  ELSE r

\* a throw inside the handler's try block goes to the error event
caught(r) == IF r.out = "throw" THEN Ret(emit(r.w, ErrorEv(r.err)), "ok") ELSE r

\* the handler without its check of the actor
handleComponentInteraction_anyone(w, actor, ctl) ==
  Ret(await(w, Op("defer", -1, -1, "", ctl, 0)), "await")

\* a handler that navigates without acknowledging the activation first
handleComponentInteraction_noAck(w, actor, ctl) ==
  IF actor # Invoker
  THEN Ret(await(w, Op("reject", -1, -1, actor, NoCtl, 0)), "await")
  ELSE IF ctl.type = "button" THEN caught(dispatchButton(w, ctl))
  ELSE caught(dispatchSelect(w, ctl))

\* the rejection is a reply to the activation itself; src names its addressee
handleComponentInteraction(w, actor, ctl) ==
  IF actor # Invoker
  THEN Ret(await(w, Op("reject", -1, -1, actor, NoCtl, 0)), "await")
  ELSE Ret(await(w, Op("defer", -1, -1, "", ctl, 0)), "await")

\* the handler resumed after the rejection reply; a failure is thrown to the
\* collector's listener, which emits it
rejectDone(w, op, ok) ==
  IF ok THEN Ret(w, "ok") ELSE Ret(emit(w, ErrorEv("api")), "ok")

\* the handler resumed after deferUpdate()
deferDone(w, op, ok) ==
  IF ~ok THEN Ret(emit(w, ErrorEv("api")), "ok")
  ELSE IF op.ctl.type = "button" THEN caught(dispatchButton(w, op.ctl))
  ELSE caught(dispatchSelect(w, op.ctl))

\* --------------------------------------------------------------- components
\* ButtonPaginator.buildComponents: one row of previous, the page counter when
\* it is shown, and next; a button is its customId and its disabled flag
buttonComponents(st, bo) ==
  LET previousButton == [id |-> BUTTON_PREVIOUS,
                         disabled |-> ~hasPreviousPage([state |-> st])]
      pageCounterButton == [id |-> CounterId, disabled |-> TRUE]
      nextButton == [id |-> BUTTON_NEXT,
                     disabled |-> ~hasNextPage([state |-> st])]
  IN IF bo.showPageCounter
     THEN <<previousButton, pageCounterButton, nextButton>>
     ELSE <<previousButton, nextButton>>

\* the state a subclass renders from: the composite copies its own state into
\* the child before it asks the child for its row
renderState(w, c) ==
  IF kind = "hybrid" THEN syncStateToChildren(w).children[c] ELSE w.state

\* the button row of the session's payload; none when the session shows no
\* buttons
buttonRow(w) ==
  IF kind = "button" \/ (kind = "hybrid" /\ w.optionSets.hybrid.enableButtons)
  THEN buttonComponents(renderState(w, "button"), w.optionSets.button)
  ELSE <<>>

\* Number.prototype.toString(): the decimal digits of a non-negative integer
RECURSIVE toString(_)
toString(n) ==
  IF n < 10 THEN <<DigitChar(n)>>
  ELSE Append(toString(n \div 10), DigitChar(n % 10))

\* the label renderers a caller supplies; an item is the length of its text,
\* and a renderer returns the lengths of the trimmed label and description:
\* "titles" labels and describes a page by its item, "summaries" gives a short
\* label and the item as description, "sparse" labels the even indexes only
customLabelRenderer(name, item, index) ==
  CASE name = "summaries" -> [label |-> 4, description |-> item]
    [] name = "sparse" ->
         [label |-> IF index % 2 = 0 THEN item ELSE 0, description |-> 0]
    [] OTHER -> [label |-> item, description |-> item]

\* generateOptionLabel: a label is "text n tail" ("prefix"), "n text"
\* ("suffix"), "n" ("number") or what the custom renderer returned ("custom"),
\* with its length; "none" when generating it throws
generateOptionLabel(labelConfig, item, index) ==
  LET pageNumber == index + 1
      digits == Len(toString(pageNumber))
      Page == [form |-> "prefix", text |-> "Page", n |-> pageNumber,
               tail |-> "", len |-> 5 + digits]
  IN CASE labelConfig.type = "page-numbers" -> Page
       [] labelConfig.type = "custom-numbers" ->
            IF labelConfig.prefix # ""
            THEN [form |-> "prefix", text |-> labelConfig.prefix,
                  n |-> pageNumber, tail |-> "",
                  len |-> Len(labelConfig.prefix) + 1 + digits]
            ELSE IF labelConfig.suffix # ""
            THEN [form |-> "suffix", text |-> labelConfig.suffix,
                  n |-> pageNumber, tail |-> "",
                  len |-> digits + 1 + Len(labelConfig.suffix)]
            ELSE [form |-> "number", text |-> "", n |-> pageNumber,
                  tail |-> "", len |-> digits]
       [] OTHER ->
            IF Given(labelConfig.customRenderer)
            THEN LET result == customLabelRenderer(labelConfig.customRenderer[1],
                                                   item, index)
                 IN [form |-> IF result.label = 0 THEN "none" ELSE "custom",
                     text |-> labelConfig.customRenderer[1], n |-> pageNumber,
                     tail |-> "", len |-> result.label]
            ELSE Page

\* generateOptionDescription: the length of the description, 0 for none
\* (autoDescriptions keeps its default, true)
generateOptionDescription(so, item, index) ==
  IF so.labelConfig.type = "custom-labels" /\ Given(so.labelConfig.customRenderer)
  THEN customLabelRenderer(so.labelConfig.customRenderer[1], item, index).description
  ELSE Min(item, so.descriptionMaxLength)

\* building the option of page index i throws into the catch block of its slot
optionThrows(st, so, i) ==
  LET label == generateOptionLabel(so.labelConfig, st.data[i + 1], i)
  IN label.form = "none" \/ label.len > MAX_OPTION_TEXT_LENGTH

\* buildComponents that sets whatever label was generated
selectMenuComponents_anyLabel(st, so) ==
  [k \in 1..maxOptions(st, so) |->
     LET i == k - 1
         description == generateOptionDescription(so, st.data[k], i)
     IN [label |-> generateOptionLabel(so.labelConfig, st.data[k], i),
         value |-> toString(i),
         default |-> (i = st.currentPage),
         description |-> Min(description, MAX_OPTION_TEXT_LENGTH)]]

\* buildComponents that gives up on the menu when one option throws
selectMenuComponents_abort(st, so) ==
  IF \E i \in 0..(maxOptions(st, so) - 1) : optionThrows(st, so, i) THEN <<>>
  ELSE selectMenuComponents_anyLabel(st, so)

\* SelectMenuPaginator.buildComponents: the options of the menu, one for each of
\* the first maxOptions pages; a slot whose option throws gets the fallback
selectMenuComponents(st, so) ==
  [k \in 1..maxOptions(st, so) |->
     LET i == k - 1
         description == generateOptionDescription(so, st.data[k], i)
     IN IF optionThrows(st, so, i)
        THEN [label |-> generateOptionLabel([type |-> "page-numbers"], 0, i),
              value |-> toString(i),
              default |-> (i = st.currentPage),
              description |-> 0]
        ELSE [label |-> generateOptionLabel(so.labelConfig, st.data[k], i),
              value |-> toString(i),
              default |-> (i = st.currentPage),
              description |-> Min(description, MAX_OPTION_TEXT_LENGTH)]]

\* the menu of the session's payload; none when the session shows no menu
selectMenu(w) ==
  IF showsMenu(w)
  THEN selectMenuComponents(renderState(w, "select"), w.optionSets.select)
  ELSE <<>>

areAllPagesAccessible(st, so) == st.totalPages <= so.maxOptionsPerMenu

getAccessiblePageCount(st, so) == Min(st.totalPages, so.maxOptionsPerMenu)

\* ------------------------------------------------------------------ actions
Do(r) == Commit(r.w)
\* a call returns to its caller: normally, at an await, or with a throw
Did(call, r) == Commit([r.w EXCEPT !.hist.last = [call |-> call, out |-> r.out]])

Called == calls < MaxCalls /\ calls' = calls + 1
MayAwait == InFlight < MaxInFlight

\* what the transport can do with a call: a reply needs an interaction not
\* yet replied to, an edit or delete needs a message that still exists
CanSucceed(op) ==
  CASE op.op = "send" /\ op.src = "reply" -> ~replied
    [] op.op \in {"reject", "defer"} -> TRUE
    [] OTHER -> replied /\ ~shown.deleted

Resolves(op, ok) == op \in BagToSet(pending) /\ (ok => CanSucceed(op))

\* --- calls of the public API
Start ==
  /\ Called /\ MayAwait /\ starts < MaxStarts
  /\ Did("start", start(World))

Stop(reason) ==
  /\ Called
  /\ Do(Ret(stop([World EXCEPT !.hist.stops = @ + 1], reason), "ok"))

GoToPage(page) ==
  /\ Called /\ MayAwait
  /\ Did("goToPage", goToPage(World, page, "api"))

NextPage ==
  /\ Called /\ MayAwait
  /\ Did("nextPage", nextPage(World, "api"))

PreviousPage ==
  /\ Called /\ MayAwait
  /\ Did("previousPage", previousPage(World, "api"))

FirstPage ==
  /\ Called /\ MayAwait
  /\ Did("firstPage", firstPage(World, "api"))

LastPage ==
  /\ Called /\ MayAwait
  /\ Did("lastPage", lastPage(World, "api"))

UpdateData(newData) ==
  /\ Called /\ MayAwait
  /\ Did("updateData", updateData(World, newData))

UpdateButtonOptions(n) ==
  /\ kind = "button"
  /\ Called /\ MayAwait
  /\ Did("updateButtonOptions", updateButtonOptions(World, n))

UpdateSelectMenuOptions(n) ==
  /\ kind = "select"
  /\ Called /\ MayAwait
  /\ Did("updateSelectMenuOptions", updateSelectMenuOptions(World, n))

UpdateHybridOptions(n) ==
  /\ kind = "hybrid"
  /\ Called /\ MayAwait
  /\ Did("updateHybridOptions", updateHybridOptions(World, n))

SetButtonsEnabled(enabled) ==
  /\ kind = "hybrid"
  /\ Called /\ MayAwait
  /\ Did("setButtonsEnabled", setButtonsEnabled(World, enabled))

SetSelectMenuEnabled(enabled) ==
  /\ kind = "hybrid"
  /\ Called /\ MayAwait
  /\ Did("setSelectMenuEnabled", setSelectMenuEnabled(World, enabled))

ConfigureLinx(config) ==
  /\ Called
  /\ Did("configureLinx", configureLinx(World, config))

ResetLinxConfig ==
  /\ Called
  /\ Did("resetLinxConfig", Ret(resetLinxConfig(World), "ok"))

SetTimeout(timeout) ==
  /\ Called
  /\ Did("setTimeout", Ret(setDefault(World, "timeout", timeout), "ok"))

SetEphemeral(ephemeral) ==
  /\ Called
  /\ Did("setEphemeral", Ret(setDefault(World, "ephemeral", ephemeral), "ok"))

SetEmojis(emojis) ==
  /\ Called
  /\ Did("setEmojis", Ret(setEmojis(World, emojis), "ok"))

\* new ButtonPaginator(interaction, data) without options, for a session not
\* started yet: the constructor merges the configuration as it is now
Construct ==
  /\ Called /\ starts = 0
  /\ options' = mergeOptions(callerOptions, currentConfig)
  /\ state' = initialState(options', state.data)
  /\ hist' = [hist EXCEPT !.last = [call |-> "new", out |-> "ok"]]
  /\ UNCHANGED <<kind, callerOptions, collector, timers, liveCollectors,
                 children, replied, shown, pending, events, childEvents,
                 starts, optionSets, currentConfig, builtin, built>>

\* --- the environment: timers, the collector, the transport
TimeoutFires(t) ==
  /\ t \in timers /\ MayAwait
  /\ Do(handleTimeout([World EXCEPT !.timers = @ \ {t}]))
  /\ UNCHANGED calls

\* the collector ends by itself: its own time limit ran out, or the message or
\* its channel was deleted
CollectorEnds(c) ==
  /\ c \in liveCollectors
  /\ Do(Ret(handleCollectorEnd([World EXCEPT !.liveCollectors = @ \ {c},
                                             !.hist.collectorEnded = TRUE]),
            "ok"))
  /\ UNCHANGED calls

Collect(c, actor, ctl) ==
  /\ c \in liveCollectors
  /\ Called /\ MayAwait
  /\ Do(handleComponentInteraction(World, actor, ctl))

SendResolves(op, ok) ==
  /\ op.op = "send" /\ Resolves(op, ok)
  /\ Do(startSent(resume(World, op), op, ok))
  /\ UNCHANGED calls

FetchResolves(op, ok) ==
  /\ op.op = "fetch" /\ Resolves(op, ok)
  /\ Do(startFetched(resume(World, op), op, ok))
  /\ UNCHANGED calls

\* a goToPage called by the interaction handler throws into its catch block
EditResolves(op, ok) ==
  /\ op.op = "goto" /\ Resolves(op, ok)
  /\ LET r == goToPageDone(resume(World, op), op, ok)
     IN Did("edit", IF op.src = "control" THEN caught(r) ELSE r)
  /\ UNCHANGED calls

UpdateResolves(op, ok) ==
  /\ op.op = "update" /\ Resolves(op, ok)
  /\ Do(updateDone(resume(World, op), op, ok))
  /\ UNCHANGED calls

TimeoutActionResolves(op, ok) ==
  /\ op.op \in {"tdelete", "tedit"} /\ Resolves(op, ok)
  /\ Do(handleTimeoutDone(resume(World, op), op, ok))
  /\ UNCHANGED calls

RejectResolves(op, ok) ==
  /\ op.op = "reject" /\ Resolves(op, ok)
  /\ Do(rejectDone(resume(World, op), op, ok))
  /\ UNCHANGED calls

DeferResolves(op, ok) ==
  /\ op.op = "defer" /\ Resolves(op, ok)
  /\ Do(deferDone(resume(World, op), op, ok))
  /\ UNCHANGED calls

Pages == {-1, 0, MaxLen - 1, MaxLen}
NewDataSets == DataSets \cup {<<>>}

Next ==
  \/ Start
  \/ \E reason \in Reasons : Stop(reason)
  \/ \E page \in Pages : GoToPage(page)
  \/ NextPage
  \/ PreviousPage
  \/ FirstPage
  \/ LastPage
  \/ \E newData \in NewDataSets : UpdateData(newData)
  \/ \E t \in timers : TimeoutFires(t)
  \/ \E c \in liveCollectors : CollectorEnds(c)
  \/ \E c \in liveCollectors, actor \in Actors, ctl \in Controls(kind) :
       Collect(c, actor, ctl)
  \/ \E op \in BagToSet(pending), ok \in BOOLEAN : SendResolves(op, ok)
  \/ \E op \in BagToSet(pending), ok \in BOOLEAN : FetchResolves(op, ok)
  \/ \E op \in BagToSet(pending), ok \in BOOLEAN : EditResolves(op, ok)
  \/ \E op \in BagToSet(pending), ok \in BOOLEAN : UpdateResolves(op, ok)
  \/ \E op \in BagToSet(pending), ok \in BOOLEAN : TimeoutActionResolves(op, ok)
  \/ \E op \in BagToSet(pending), ok \in BOOLEAN : RejectResolves(op, ok)
  \/ \E op \in BagToSet(pending), ok \in BOOLEAN : DeferResolves(op, ok)

Spec == Init /\ [][Next]_vars

\* the option sets and the configuration: the calls that take an options
\* object, on a session that is started or not
NewButtonOptions ==
  { [buttonStyle |-> <<"Secondary">>, showPageCounter |-> <<FALSE>>],
    [buttonStyle |-> <<"Bogus">>, showPageCounter |-> <<FALSE>>] }
NewSelectOptions ==
  { [NoSelectOptions EXCEPT !.placeholder = <<PLACEHOLDER_LENGTH + 1>>],
    [NoSelectOptions EXCEPT !.placeholder = <<MAX_SELECT_PLACEHOLDER_LENGTH + 1>>],
    [NoSelectOptions EXCEPT !.placeholder = <<PLACEHOLDER_LENGTH + 1>>,
                            !.maxOptionsPerMenu = <<0>>],
    [NoSelectOptions EXCEPT !.minValues = <<MIN_VALUES>>,
                            !.maxValues = <<MAX_SELECT_OPTIONS + 1>>],
    [NoSelectOptions EXCEPT !.maxOptionsPerMenu = <<MaxLen - 1>>],
    [NoSelectOptions EXCEPT !.labelOption = <<CustomNumbers("Chapter", "")>>,
                            !.customLabelRenderer = <<"titles">>] }
NewHybridOptions ==
  { [NoHybridOptions EXCEPT !.layout = <<"select-top">>],
    [NoHybridOptions EXCEPT !.layout = <<"sideways">>,
                            !.enableButtons = <<FALSE>>],
    [NoHybridOptions EXCEPT !.enableButtons = <<FALSE>>,
                            !.enableSelectMenu = <<FALSE>>],
    [NoHybridOptions EXCEPT !.layout = <<"select-bottom">>,
                            !.buttonOptions =
                               <<[buttonStyle |-> <<"Secondary">>,
                                  showPageCounter |-> Undefined]>>] }
NoConfig == [emojis |-> Undefined, defaults |-> Undefined, messages |-> Undefined]
NewConfigs ==
  { [NoConfig EXCEPT !.emojis = <<[previous |-> "<:linx_back:2>"]>>],
    [NoConfig EXCEPT !.emojis = <<[previous |-> "back"]>>,
                     !.messages = <<[timeout |-> "Timed out."]>>],
    [NoConfig EXCEPT !.emojis = <<[previous |-> "<:linx_back:2>"]>>,
                     !.defaults = <<[timeout |-> INTERACTION_TOKEN_LIFETIME + 1]>>],
    [NoConfig EXCEPT !.defaults = <<[timeout |-> 0]>>,
                     !.messages = <<[timeout |-> "Timed out."]>>] }

NextOptions ==
  \/ Start
  \/ \E page \in Pages : GoToPage(page)
  \/ \E newData \in NewDataSets : UpdateData(newData)
  \/ \E n \in NewButtonOptions : UpdateButtonOptions(n)
  \/ \E n \in NewSelectOptions : UpdateSelectMenuOptions(n)
  \/ \E n \in NewHybridOptions : UpdateHybridOptions(n)
  \/ \E enabled \in BOOLEAN : SetButtonsEnabled(enabled)
  \/ \E enabled \in BOOLEAN : SetSelectMenuEnabled(enabled)
  \/ \E config \in NewConfigs : ConfigureLinx(config)
  \/ \E op \in BagToSet(pending), ok \in BOOLEAN : SendResolves(op, ok)
  \/ \E op \in BagToSet(pending), ok \in BOOLEAN : FetchResolves(op, ok)
  \/ \E op \in BagToSet(pending), ok \in BOOLEAN : EditResolves(op, ok)
  \/ \E op \in BagToSet(pending), ok \in BOOLEAN : UpdateResolves(op, ok)

SpecOptions == Init /\ [][NextOptions]_vars

\* the collection: start, goToPage and updateData with their transport calls
NextData ==
  \/ Start
  \/ \E page \in Pages : GoToPage(page)
  \/ \E newData \in NewDataSets : UpdateData(newData)
  \/ \E op \in BagToSet(pending), ok \in BOOLEAN : SendResolves(op, ok)
  \/ \E op \in BagToSet(pending), ok \in BOOLEAN : FetchResolves(op, ok)
  \/ \E op \in BagToSet(pending), ok \in BOOLEAN : EditResolves(op, ok)
  \/ \E op \in BagToSet(pending), ok \in BOOLEAN : UpdateResolves(op, ok)

SpecData == Init /\ [][NextData]_vars

\* the select menu: sessions that show a menu, built over collections below,
\* at and above the menu's capacity and with the label options a caller can
\* pass; then start, navigation by call and by control, and option updates
MenuDataSets == {Plain(MaxLen), Plain(2 * MaxLen), Plain(MAX_SELECT_OPTIONS + 1)}

SelectOptionsGiven ==
  { NoSelectOptions,
    [NoSelectOptions EXCEPT !.maxOptionsPerMenu = <<MaxLen>>],
    [NoSelectOptions EXCEPT !.maxOptionsPerMenu = <<MAX_SELECT_OPTIONS + 1>>],
    [NoSelectOptions EXCEPT !.maxOptionsPerMenu = <<0>>],
    [NoSelectOptions EXCEPT !.labelOption = <<CustomNumbers("Chapter", "")>>,
                            !.customLabelRenderer = <<"titles">>],
    [NoSelectOptions EXCEPT !.labelOption = <<CustomLabels>>,
                            !.customLabelRenderer = <<"titles">>],
    [NoSelectOptions EXCEPT !.labelOption = <<CustomLabels>>],
    [NoSelectOptions EXCEPT !.labelOption = <<CustomNumbers("", "")>>] }

\* the callers that pass no base option
MenuCallers == {o \in CallerOptions : \A f \in DOMAIN o : ~Given(o[f])}

InitMenu ==
  Constructed({"select", "hybrid"}, MenuCallers, MenuDataSets, SelectOptionsGiven)

NextMenu ==
  \/ Start
  \/ \E page \in Pages : GoToPage(page)
  \/ \E n \in NewSelectOptions : UpdateSelectMenuOptions(n)
  \/ \E c \in liveCollectors, ctl \in Controls(kind) : Collect(c, Invoker, ctl)
  \/ \E op \in BagToSet(pending), ok \in BOOLEAN : SendResolves(op, ok)
  \/ \E op \in BagToSet(pending), ok \in BOOLEAN : FetchResolves(op, ok)
  \/ \E op \in BagToSet(pending), ok \in BOOLEAN : EditResolves(op, ok)
  \/ \E op \in BagToSet(pending), ok \in BOOLEAN : UpdateResolves(op, ok)
  \/ \E op \in BagToSet(pending), ok \in BOOLEAN : DeferResolves(op, ok)

SpecMenu == InitMenu /\ [][NextMenu]_vars

\* sessions whose menus are labelled in each of the ways a caller can ask for,
\* over data with an item too long for a label
LabelOptionsGiven ==
  { [NoSelectOptions EXCEPT !.labelOption = <<CustomNumbers("Chapter", "")>>],
    [NoSelectOptions EXCEPT !.labelOption = <<CustomNumbers("", "Summary")>>],
    [NoSelectOptions EXCEPT !.labelOption = <<CustomNumbers("Chapter", "Summary")>>],
    [NoSelectOptions EXCEPT !.labelOption = <<CustomNumbers("", "")>>],
    [NoSelectOptions EXCEPT !.labelOption = <<CustomLabels>>,
                            !.customLabelRenderer = <<"titles">>],
    [NoSelectOptions EXCEPT !.labelOption = <<CustomLabels>>,
                            !.customLabelRenderer = <<"summaries">>],
    [NoSelectOptions EXCEPT !.labelOption = <<CustomLabels>>,
                            !.customLabelRenderer = <<"sparse">>,
                            !.maxOptionsPerMenu = <<MaxLen - 1>>] }

InitLabels ==
  Constructed({"select", "hybrid"}, MenuCallers,
              {Plain(MaxLen), WithLong(MaxLen)}, LabelOptionsGiven)

SpecLabels == InitLabels /\ [][NextMenu]_vars

\* the configuration module: its setters and reset, and sessions constructed
\* without options after them
InitConfig ==
  Constructed({"button"}, MenuCallers, {Plain(MaxLen)}, {NoSelectOptions})

NextConfig ==
  \/ \E config \in NewConfigs : ConfigureLinx(config)
  \/ \E emojis \in {[previous |-> "<:linx_back:2>"]} : SetEmojis(emojis)
  \/ \E timeout \in {0, 60000} : SetTimeout(timeout)
  \/ \E ephemeral \in BOOLEAN : SetEphemeral(ephemeral)
  \/ ResetLinxConfig
  \/ Construct

SpecConfig == InitConfig /\ [][NextConfig]_vars

\* ---------------------------------------------------------- ComponentBuilder
\* the loop of createActionRows from component i on, and the push of the last
\* row after it; a component is its type and its place in the input
RECURSIVE distribute(_, _, _, _)
distribute(components, i, rows, currentRow) ==
  LET component == components[i]
      rows1 == IF \/ component.type = "select" /\ currentRow # <<>>
                  \/ component.type = "button"
                       /\ Len(currentRow) >= MAX_BUTTON_PER_ROW
               THEN Append(rows, currentRow) ELSE rows
      rows2 == IF component.type = "select"
               THEN Append(rows1, <<component>>) ELSE rows1
      row2 == IF component.type = "select" THEN <<>>
              ELSE IF Len(currentRow) >= MAX_BUTTON_PER_ROW THEN <<component>>
              ELSE Append(currentRow, component)
  IN IF i > Len(components)
     THEN IF currentRow # <<>> THEN Append(rows, currentRow) ELSE rows
     ELSE IF Len(rows2) >= MAX_ROWS_PER_MESSAGE
     THEN IF row2 # <<>> THEN Append(rows2, row2) ELSE rows2
     ELSE distribute(components, i + 1, rows2, row2)

createActionRows(components) == distribute(components, 1, <<>>, <<>>)

ComponentLists ==
  UNION {{[i \in 1..n |-> [type |-> types[i], id |-> i]] :
            types \in [1..n -> {"button", "select"}]} : n \in 0..MaxComponents}

CreateActionRows(components) ==
  /\ built' = [components |-> components, rows |-> createActionRows(components)]
  /\ UNCHANGED <<progVarsOfSession, hist, calls>>

NextRows == \E components \in ComponentLists : CreateActionRows(components)

SpecRows == InitConfig /\ [][NextRows]_vars

\* navigation only: start, the navigation calls, the control activations and
\* the resolution of their transport calls
NextNav ==
  \/ Start
  \/ \E page \in Pages : GoToPage(page)
  \/ NextPage
  \/ PreviousPage
  \/ FirstPage
  \/ LastPage
  \/ \E c \in liveCollectors, actor \in Actors, ctl \in Controls(kind) :
       Collect(c, actor, ctl)
  \/ \E op \in BagToSet(pending), ok \in BOOLEAN : SendResolves(op, ok)
  \/ \E op \in BagToSet(pending), ok \in BOOLEAN : FetchResolves(op, ok)
  \/ \E op \in BagToSet(pending), ok \in BOOLEAN : EditResolves(op, ok)
  \/ \E op \in BagToSet(pending), ok \in BOOLEAN : RejectResolves(op, ok)
  \/ \E op \in BagToSet(pending), ok \in BOOLEAN : DeferResolves(op, ok)

SpecNav == Init /\ [][NextNav]_vars

TypeOK ==
  /\ state.isActive \in BOOLEAN
  /\ state.totalPages = Len(state.data)
  /\ InFlight <= MaxInFlight
  /\ calls <= MaxCalls

\* the life cycle: start, stop, the timeout and the end of the collector, with
\* goToPage calls and their edits in between. These are the steps that read or
\* write isActive, the timer, the collector and the end event; a control
\* activation reaches them only through goToPage.
NextLife ==
  \/ Start
  \/ \E reason \in Reasons : Stop(reason)
  \/ \E page \in Pages : GoToPage(page)
  \/ \E t \in timers : TimeoutFires(t)
  \/ \E c \in liveCollectors : CollectorEnds(c)
  \/ \E op \in BagToSet(pending), ok \in BOOLEAN : SendResolves(op, ok)
  \/ \E op \in BagToSet(pending), ok \in BOOLEAN : FetchResolves(op, ok)
  \/ \E op \in BagToSet(pending), ok \in BOOLEAN : EditResolves(op, ok)
  \/ \E op \in BagToSet(pending), ok \in BOOLEAN : TimeoutActionResolves(op, ok)

SpecLife == Init /\ [][NextLife]_vars

\* start and what ends a session: the only calls are start() and stop()
NextStart ==
  \/ Start
  \/ \E reason \in Reasons : Stop(reason)
  \/ \E t \in timers : TimeoutFires(t)
  \/ \E c \in liveCollectors : CollectorEnds(c)
  \/ \E op \in BagToSet(pending), ok \in BOOLEAN : SendResolves(op, ok)
  \/ \E op \in BagToSet(pending), ok \in BOOLEAN : FetchResolves(op, ok)
  \/ \E op \in BagToSet(pending), ok \in BOOLEAN : TimeoutActionResolves(op, ok)

SpecStart == Init /\ [][NextStart]_vars

\* ------------------------------------------------------------------- claims
Named(name) == {i \in DOMAIN events : events[i].name = name}
EndedBy(reason) == {i \in Named("end") : events[i].reason = reason}
PendingOps(ops) == {op \in BagToSet(pending) : op.op \in ops}
EditOps == {"send", "fetch", "goto", "update", "tedit"}

\* C1: in every reachable state 0 <= currentPage < totalPages.
C1_PageInRange ==
  0 <= state.currentPage /\ state.currentPage < state.totalPages

\* C2: whenever no message edit is in flight, currentPage is the page of the
\* last payload the transport accepted for the message.
C2_PageMatchesMessage ==
  (shown.page # -1 /\ PendingOps(EditOps) = {}) => state.currentPage = shown.page

\* C3: at most one navigation transition is in flight: no goToPage writes
\* currentPage while the edit of another goToPage is unresolved.
C3_OneTransitionInFlight ==
  /\ Cardinality(PendingOps({"goto"})) <= 1
  /\ \A op \in PendingOps({"goto"}) : CopiesIn(op, pending) = 1

\* C4: once stop has deactivated the session, no timeout is armed, no
\* collector is attached and the timeout handler does not run.
C4_StoppedStaysQuiet ==
  \A i \in Named("end") :
    /\ timers = {}
    /\ liveCollectors = {}
    /\ \A j \in Named("timeout") : j < i

\* C5: once stop has deactivated a started session, it is never active again.
C5_EndedIsTerminal ==
  (\E i \in Named("start"), j \in Named("end") : i < j) => ~state.isActive

\* C6: every step that changes currentPage is taken while the session is
\* active.
C6_PageChangesOnlyWhileActive ==
  [][state'.currentPage # state.currentPage => state.isActive]_vars

\* C7: when the timeout's action on the message of a session configured with
\* afterTimeout = 'disable' goes through, the message has every control
\* disabled and the timeout notice, and it is not deleted.
C7_TimeoutDisables ==
  [][(/\ callerOptions.afterTimeout = <<"disable">>
      /\ \E op \in PendingOps({"tdelete", "tedit"}) :
           TimeoutActionResolves(op, TRUE))
     => (shown'.disabled /\ shown'.notice /\ ~shown'.deleted)]_vars

Terminal == Named("timeout") \cup Named("end")
C9_EventOrder ==
  /\ \A i \in DOMAIN events :
       events[i].name # "error" => \E j \in Named("start") : j <= i
  /\ Cardinality(Named("start")) <= 1
  /\ \A i \in Named("pageChange"), j \in Terminal : i < j
  /\ Cardinality(Terminal) <= 1

\* C10: a stop call on an active session emits exactly one end event and
\* deactivates it; a stop call on a session that is not active changes
\* nothing, so two calls in a row emit one end event.
C10_StopIdempotent ==
  [][\A reason \in Reasons :
       Stop(reason) =>
         IF state.isActive
         THEN /\ ~state'.isActive
              /\ events' = Append(events, Ev("end", reason, state.currentPage, -1))
              /\ childEvents' = childEvents
         ELSE UNCHANGED progVars]_vars

C10_Witness ==
  /\ hist.stops >= 2
  /\ Named("start") = {1}
  /\ Named("end") = {2}
  /\ events[2].reason = "user"
  /\ ~state.isActive

\* C11: start() on an active session, a session whose first start() is still
\* awaiting delivery included, throws and changes nothing: no message is sent,
\* no timeout armed, no collector attached, isActive and currentPage are kept.
C11_StartWhileActiveRejected ==
  [][(Start /\ state.isActive)
     => (start(World).out = "throw" /\ UNCHANGED progVars)]_vars

\* under SpecStart every call is a start() or a stop(), so a call that is
\* neither a stop() nor a start() past the guard is a rejected start()
C11_Witness ==
  /\ calls > starts + hist.stops
  /\ state.isActive
  /\ PendingOps({"send"}) # {}

\* C12: a control activation by an actor other than the invoker changes no
\* state of the session, emits no pageChange and issues no message edit: all
\* it does is send a rejection reply addressed to that actor, whose failure is
\* reported as an error event. This holds for every kind of paginator.
PageChangesIn(evs) == {i \in DOMAIN evs : evs[i].name = "pageChange"}
C12_ForeignActorRejected ==
  [][/\ \A c \in liveCollectors, actor \in Actors \ {Invoker},
          ctl \in Controls(kind) :
          Collect(c, actor, ctl) =>
            /\ UNCHANGED <<state, children, shown, events, childEvents,
                           timers, liveCollectors, collector>>
            /\ pending' = pending (+)
                            SetToBag({Op("reject", -1, -1, actor, NoCtl, 0)})
     /\ \A op \in PendingOps({"reject"}), ok \in BOOLEAN :
          RejectResolves(op, ok) =>
            /\ UNCHANGED <<state, children, shown, childEvents, timers,
                           liveCollectors, collector>>
            /\ pending' = pending (-) SetToBag({op})
            /\ PageChangesIn(events') = PageChangesIn(events)]_vars

C12_Witness ==
  /\ kind = "hybrid"
  /\ state.isActive
  /\ \E op \in PendingOps({"reject"}) : op.src = "other"

\* C13: goToPage(n) remembers the page it was called on, and when its message
\* edit fails currentPage is that page again, no pageChange is emitted and
\* the error is thrown to the caller (the interaction handler reports it as
\* an error event).
C13_FailedEditRollsBack ==
  [][/\ \A page \in Pages :
          (GoToPage(page) /\ pending' # pending) =>
            pending' = pending (+)
              SetToBag({Op("goto", page, state.currentPage, "api", NoCtl, 0)})
     /\ \A op \in PendingOps({"goto"}) :
          EditResolves(op, FALSE) =>
            /\ state'.currentPage = op.oldPage
            /\ PageChangesIn(events') = PageChangesIn(events)
            /\ goToPageDone(resume(World, op), op, FALSE).out = "throw"
            /\ op.src = "control" => events' = Append(events, ErrorEv("api"))]_vars

\* start, then one goToPage to another page whose edit failed
C13_Witness ==
  /\ hist.last = [call |-> "edit", out |-> "throw"]
  /\ calls = 2
  /\ InFlight = 0
  /\ state.isActive
  /\ Named("pageChange") = {}
  /\ state.currentPage = shown.page

\* C14: a call of goToPage, updateData, updateButtonOptions,
\* updateSelectMenuOptions, updateHybridOptions or configureLinx that throws
\* leaves the session state, the option sets and the configuration as they
\* were before the call.
Settings == <<state, optionSets, currentConfig>>
C14_ValidationBeforeMutation ==
  [][/\ \A page \in Pages :
          (GoToPage(page) /\ goToPage(World, page, "api").out = "throw")
            => UNCHANGED Settings
     /\ \A newData \in NewDataSets :
          (UpdateData(newData) /\ updateData(World, newData).out = "throw")
            => UNCHANGED Settings
     /\ \A n \in NewButtonOptions :
          (UpdateButtonOptions(n) /\ updateButtonOptions(World, n).out = "throw")
            => UNCHANGED Settings
     /\ \A n \in NewSelectOptions :
          (UpdateSelectMenuOptions(n)
             /\ updateSelectMenuOptions(World, n).out = "throw")
            => UNCHANGED Settings
     /\ \A n \in NewHybridOptions :
          (UpdateHybridOptions(n) /\ updateHybridOptions(World, n).out = "throw")
            => UNCHANGED Settings
     /\ \A config \in NewConfigs :
          (ConfigureLinx(config) /\ configureLinx(World, config).out = "throw")
            => UNCHANGED Settings]_vars

\* C15: a composite (hybrid) session always has at least one of
\* enableButtons and enableSelectMenu set.
C15_OneControlEnabled ==
  kind = "hybrid"
    => (optionSets.hybrid.enableButtons \/ optionSets.hybrid.enableSelectMenu)

\* C16: nextPage() on the last page and previousPage() on page 0 do nothing:
\* the page, the message and the events stay as they are, no edit is issued
\* and the call returns without an error.
C16_EdgeStepsAreNoOps ==
  [][/\ (NextPage /\ state.currentPage = state.totalPages - 1)
          => /\ nextPage(World, "api").out = "noop"
             /\ UNCHANGED <<state, shown, events, pending>>
     /\ (PreviousPage /\ state.currentPage = 0)
          => /\ previousPage(World, "api").out = "noop"
             /\ UNCHANGED <<state, shown, events, pending>>]_vars

C16_Witness ==
  /\ hist.last = [call |-> "nextPage", out |-> "noop"]
  /\ state.isActive /\ state.message
  /\ state.totalPages > 1
  /\ state.currentPage = state.totalPages - 1
  /\ shown.page = state.currentPage
  /\ InFlight = 0

\* C17: firstPage() on page 0 and lastPage() on the last page do nothing and
\* stay silent: the call does not fail, the page, the message and the events
\* stay as they are, and no edit is issued.
C17_EdgeJumpsAreNoOps ==
  [][/\ (FirstPage /\ state.currentPage = 0)
          => /\ firstPage(World, "api").out # "throw"
             /\ UNCHANGED <<state, shown, events, pending>>
     /\ (LastPage /\ state.currentPage = state.totalPages - 1)
          => /\ lastPage(World, "api").out # "throw"
             /\ UNCHANGED <<state, shown, events, pending>>]_vars

\* C18: when the edit of a goToPage(n) call on an active session succeeds, the
\* call returns with currentPage = n.
C18_GoToPageLands ==
  [][\A op \in PendingOps({"goto"}) :
       (op.src = "api" /\ EditResolves(op, TRUE)) => state'.currentPage = op.page]_vars

\* C19: updateData(newData) with a non-empty newData replaces the collection;
\* currentPage becomes Len(newData) - 1 when Len(newData) < currentPage + 1 and
\* is unchanged otherwise; a re-render of the message is issued only if the
\* session is active.
C19_UpdateDataClamps ==
  [][\A newData \in NewDataSets :
       (UpdateData(newData) /\ newData # <<>>)
         => /\ updateData(World, newData).out = "ok"
            /\ state'.data = newData
            /\ state'.currentPage = IF Len(newData) < state.currentPage + 1
                                    THEN Len(newData) - 1
                                    ELSE state.currentPage
            /\ state'.isActive = state.isActive
            /\ ~state.isActive => (pending' = pending /\ shown' = shown)
            /\ pending' # pending
                 => pending' = pending
                      (+) SetToBag({Op("update", state'.currentPage, -1, "",
                                       NoCtl, 0)})]_vars

C19_Witness ==
  /\ hist.last = [call |-> "updateData", out |-> "ok"]
  /\ state.isActive
  /\ state.data = Plain(1) /\ state.currentPage = 0
  /\ shown.page = MaxLen - 1
  /\ PendingOps({"update"}) # {}

\* C20: in every reachable state totalPages is the length of the data and is
\* at least 1; updateData with an empty collection throws and leaves data,
\* totalPages and currentPage as they were.
C20_TotalPagesIsLength ==
  /\ [](state.totalPages = Len(state.data) /\ state.totalPages >= 1)
  /\ [][UpdateData(<<>>)
         => (updateData(World, <<>>).out = "throw" /\ UNCHANGED state)]_vars

C20_Witness ==
  /\ hist.last = [call |-> "updateData", out |-> "throw"]
  /\ state.isActive /\ state.message
  /\ state.currentPage = MaxLen - 1
  /\ state.totalPages = MaxLen

\* C21: in every state the button row built from it has previous disabled
\* exactly on page 0 and next disabled exactly on the last page.
Button(row, id) == {i \in DOMAIN row : row[i].id = id}
C21_EdgeDisable ==
  LET row == buttonRow(World)
  IN /\ \A i \in Button(row, BUTTON_PREVIOUS) :
          row[i].disabled = (state.currentPage = 0)
     /\ \A i \in Button(row, BUTTON_NEXT) :
          row[i].disabled = (state.currentPage = state.totalPages - 1)

\* C22: the button row of a delivered message contains the first and last
\* controls exactly when totalPages > 2 and the caller set the show-edges flag.
C22_EdgeControlsShown ==
  (kind = "button" /\ state.message)
    => LET row == buttonRow(World)
       IN (Button(row, BUTTON_FIRST) # {} /\ Button(row, BUTTON_LAST) # {})
            <=> (state.totalPages > 2 /\ callerOptions.showFirstLast = <<TRUE>>)

\* C23: a menu that is rendered has exactly min(totalPages, maxOptionsPerMenu)
\* options, getAccessiblePageCount() is that number, and
\* areAllPagesAccessible() holds exactly when totalPages <= maxOptionsPerMenu,
\* which is when every page has an option.
OptionFor(menu, page) == {i \in DOMAIN menu : menu[i].value = toString(page)}
C23_MenuSize ==
  (showsMenu(World) /\ ~ComponentsThrow(World))
    => LET menu == selectMenu(World)
           so == optionSets.select
       IN /\ Len(menu) = Min(state.totalPages, so.maxOptionsPerMenu)
          /\ getAccessiblePageCount(state, so) = Len(menu)
          /\ areAllPagesAccessible(state, so)
               <=> state.totalPages <= so.maxOptionsPerMenu
          /\ areAllPagesAccessible(state, so)
               <=> \A page \in 0..(state.totalPages - 1) :
                     OptionFor(menu, page) # {}

C23_Witness ==
  /\ kind = "select" /\ state.isActive /\ state.message /\ shown.page = 0
  /\ state.totalPages = 2 * MaxLen
  /\ optionSets.select.maxOptionsPerMenu = MaxLen
  /\ Len(selectMenu(World)) = MaxLen
  /\ ~areAllPagesAccessible(state, optionSets.select)
  /\ getAccessiblePageCount(state, optionSets.select) = MaxLen

\* C24: the menu of a delivered message never has more options than the
\* platform allows.
C24_MenuWithinCap ==
  state.message => Len(selectMenu(World)) <= MAX_SELECT_OPTIONS

\* C25: in the menu of a delivered message exactly one option is the default,
\* and it is the option whose value is currentPage.
C25_OneDefaultOption ==
  (state.message /\ showsMenu(World))
    => LET menu == selectMenu(World)
       IN /\ Cardinality({i \in DOMAIN menu : menu[i].default}) = 1
          /\ \A i \in DOMAIN menu :
               menu[i].default <=> menu[i].value = toString(state.currentPage)

\* C26: when the caller passed a custom label renderer together with a
\* custom-number prefix, every option label of a delivered message's menu is
\* the renderer's.
C26_CustomRendererFirst ==
  (state.message /\ showsMenu(World)
     /\ Given(optionSets.select.customLabelRenderer)
     /\ optionSets.select.labelOption.style = "CustomNumbers")
    => \A i \in DOMAIN selectMenu(World) :
         selectMenu(World)[i].label.form = "custom"

\* C27: an acknowledged activation of a control with an unrecognized
\* identifier emits one component error and leaves the page, the message, the
\* timeout and the listener as they are; an activation of the page counter
\* emits nothing.
Unrecognized(ctl) ==
  \/ ctl.type = "button"
       /\ ctl.id \notin {BUTTON_PREVIOUS, BUTTON_NEXT, BUTTON_FIRST, BUTTON_LAST,
                         CounterId}
  \/ ctl.type = "select" /\ ctl.id # OwnMenuId
Session == <<state.isActive, state.timeoutId, timers, liveCollectors, collector>>
C28_FailedEditKeepsSession ==
  [][\A op \in BagToSet(pending) :
       /\ (op.src = "control" /\ EditResolves(op, FALSE))
            => /\ events' = Append(events, ErrorEv("api"))
               /\ Session' = Session
       /\ (DeferResolves(op, FALSE) \/ RejectResolves(op, FALSE))
            => /\ events' = Append(events, ErrorEv("api"))
               /\ Session' = Session]_vars

C28_Witness ==
  /\ hist.last = [call |-> "edit", out |-> "ok"]
  /\ events # <<>> /\ events[Len(events)] = ErrorEv("api")
  /\ Named("end") = {}
  /\ state.isActive /\ state.message
  /\ state.timeoutId \in timers
  /\ collector \in liveCollectors

\* C29: when start() fails, in rendering the first page or in delivering it,
\* the call throws, an error event is emitted and the session is left not
\* active, with no timeout armed and no listener attached.
FailedStartLeaves ==
  /\ ~state'.isActive
  /\ Len(events') > Len(events)
  /\ events'[Len(events')].name = "error"
  /\ timers' = {} /\ liveCollectors' = {}
C29_FailedStartLeavesInactive ==
  [][/\ (Start /\ ~state.isActive /\ start(World).out = "throw")
          => FailedStartLeaves
     /\ \A op \in BagToSet(pending) :
          /\ SendResolves(op, FALSE)
               => (startSent(resume(World, op), op, FALSE).out = "throw"
                   /\ FailedStartLeaves)
          /\ FetchResolves(op, FALSE)
               => (startFetched(resume(World, op), op, FALSE).out = "throw"
                   /\ FailedStartLeaves)]_vars

\* C30: an activation by the invoker issues deferUpdate and nothing else, and
\* a navigation or message edit caused by an activation is issued only when
\* that acknowledgement has resolved; an activation by another actor issues
\* the rejection reply and never a deferUpdate.
Issued == pending' (-) pending
C30_AckBeforeNavigation ==
  [][/\ \A c \in liveCollectors, ctl \in Controls(kind) :
          /\ Collect(c, Invoker, ctl)
               => /\ Issued = SetToBag({Op("defer", -1, -1, "", ctl, 0)})
                  /\ state' = state /\ shown' = shown
          /\ \A actor \in Actors \ {Invoker} :
               Collect(c, actor, ctl)
                 => /\ BagToSet(Issued) # {}
                    /\ \A op \in BagToSet(Issued) : op.op = "reject"
     /\ \A op \in BagToSet(Issued) :
          (op.op = "goto" /\ op.src = "control")
            => \E ack \in PendingOps({"defer"}) :
                 /\ DeferResolves(ack, TRUE)
                 /\ CopiesIn(ack, pending') < CopiesIn(ack, pending)]_vars
C30_Witness ==
  /\ \E op \in PendingOps({"goto"}) : op.src = "control"
  /\ PendingOps({"defer"}) = {}
  /\ state.isActive /\ state.message

\* C31: a pageChange event is emitted exactly once for each goToPage whose
\* message edit succeeded and never for one whose edit failed; when it is
\* emitted its new index is the session's currentPage and its old index is the
\* page the transition started from.
C31_PageChangePerSuccessfulEdit ==
  [][/\ \A op \in PendingOps({"goto"}) :
          /\ EditResolves(op, TRUE)
               => /\ events' = Append(events,
                                      Ev("pageChange", "", op.page, op.oldPage))
                  /\ state'.currentPage = op.page
          /\ EditResolves(op, FALSE)
               => PageChangesIn(events') = PageChangesIn(events)
     /\ PageChangesIn(events') # PageChangesIn(events)
          => \E op \in PendingOps({"goto"}) : EditResolves(op, TRUE)]_vars

\* C32: in a composite session, every step that renders a payload leaves both
\* children's views with the currentPage, totalPages and data of the shared
\* state, and the views the button row and the menu are rendered from always
\* agree with the shared state and so with each other.
View(st) == <<st.currentPage, st.totalPages, st.data>>
Renders == \E op \in BagToSet(Issued) : op.op \in {"send", "goto", "update"}
C32_ViewsMatchSharedState ==
  /\ [](kind = "hybrid"
          => /\ View(renderState(World, "button")) = View(state)
             /\ View(renderState(World, "select")) = View(state))
  /\ [][(kind = "hybrid" /\ Renders)
          => \A c \in ChildNames(kind) : View(children'[c]) = View(state')]_vars
C32_Witness ==
  /\ kind = "hybrid" /\ state.message
  /\ state.currentPage > 0 /\ shown.page = state.currentPage
  /\ \E op \in PendingOps({"update"}) : op.page = state.currentPage
  /\ \A c \in ChildNames(kind) : View(children[c]) = View(state)

C34_ChildOptionsUpdated ==
  [][\A n \in NewHybridOptions :
       (/\ UpdateHybridOptions(n)
        /\ state.isActive
        /\ validateHybridOptions(n)
        /\ Given(n.buttonOptions) \/ Given(n.selectMenuOptions))
         => /\ hist'.last = [call |-> "updateHybridOptions", out |-> "ok"]
            /\ Given(n.buttonOptions)
                 => optionSets'.button.buttonStyle =
                      OrElse(n.buttonOptions[1].buttonStyle,
                             optionSets.button.buttonStyle)]_vars

\* C35: when building the option of a page throws, its slot gets the fallback
\* option labelled "Page n" with value n-1, and the menu still has
\* min(totalPages, maxOptionsPerMenu) options in page order.
PageLabel(n) ==
  [form |-> "prefix", text |-> "Page", n |-> n, tail |-> "",
   len |-> 5 + Len(toString(n))]
Slots == 1..Min(state.totalPages, optionSets.select.maxOptionsPerMenu)
SlotThrows(k) ==
  optionThrows(renderState(World, "select"), optionSets.select, k - 1)
C35_FallbackOption ==
  (state.message /\ showsMenu(World) /\ Slots # {})
    => /\ DOMAIN selectMenu(World) = Slots
       /\ \A k \in Slots :
            /\ selectMenu(World)[k].value = toString(k - 1)
            /\ SlotThrows(k) => selectMenu(World)[k].label = PageLabel(k)
C35_Witness ==
  /\ state.message /\ showsMenu(World)
  /\ optionSets.select.labelConfig.customRenderer = <<"sparse">>
  /\ SlotThrows(2) /\ ~SlotThrows(1)
  /\ selectMenu(World)[1].label.form = "custom"
  /\ shown.page = state.currentPage

\* C36 as claimed: on the custom-renderer path a label longer than the cap
\* fails the render, so no step delivers a payload rendered from such a state.
CustomPath ==
  /\ showsMenu(World)
  /\ optionSets.select.labelConfig.type = "custom-labels"
  /\ Given(optionSets.select.labelConfig.customRenderer)
Rendered(k) ==
  customLabelRenderer(optionSets.select.labelConfig.customRenderer[1],
                      state.data[k], k - 1)
LabelOverflows(k) == Rendered(k).label > MAX_OPTION_TEXT_LENGTH
C36_LabelOverflowFailsRender ==
  [][Renders => ~(CustomPath /\ \E k \in Slots : LabelOverflows(k))']_vars
\* C36 as the code has it: on the custom-renderer path a label longer than the
\* cap makes its own slot fall back to "Page n" without a description, the
\* render succeeds with every other option as rendered, and a description
\* longer than the cap is cut to the cap.
C36_LabelOverflowFallsBack ==
  (CustomPath /\ Slots # {})
    => /\ ~ComponentsThrow(World)
       /\ DOMAIN selectMenu(World) = Slots
       /\ \A k \in Slots :
            LET option == selectMenu(World)[k]
            IN IF LabelOverflows(k)
               THEN option.label = PageLabel(k) /\ option.description = 0
               ELSE /\ ~SlotThrows(k) => /\ option.label.form = "custom"
                                         /\ option.label.len = Rendered(k).label
                    /\ option.description =
                         IF SlotThrows(k) THEN 0
                         ELSE Min(Rendered(k).description, MAX_OPTION_TEXT_LENGTH)
C36_Witness ==
  /\ state.message /\ state.isActive /\ CustomPath
  /\ shown.page = state.currentPage
  /\ \E k \in Slots : LabelOverflows(k)
  /\ \E k \in Slots : selectMenu(World)[k].label.form = "custom"

\* C37: with custom numbering the label of page index i is "prefix i+1" followed
\* by the suffix when a prefix is configured, and "i+1 suffix" when only a
\* suffix is; a session configured with neither does not exist.
C37_CustomNumberLabels ==
  LET labelOption == optionSets.select.labelOption
  IN (showsMenu(World) /\ labelOption.style = "CustomNumbers")
       => /\ labelOption.prefix # "" \/ labelOption.suffix # ""
          /\ \A k \in DOMAIN selectMenu(World) :
               LET label == selectMenu(World)[k].label
               IN IF ~state.message THEN TRUE
                  ELSE IF labelOption.prefix # ""
                  THEN /\ label.form = "prefix"
                       /\ label.text = labelOption.prefix
                       /\ label.n = k
                       /\ label.tail = labelOption.suffix
                  ELSE /\ label.form = "suffix"
                       /\ label.text = labelOption.suffix
                       /\ label.n = k

\* C38: a selector activation by the invoker changes currentPage only to the
\* page parsed from the first selected value, which then is in range and not
\* the current page; a value that is not a number or is out of range is
\* reported as a component error and a selection of the current page does
\* nothing, and in both cases no edit is issued, no pageChange is emitted and
\* the session is left as it was.
Selected(op) == parseInt(op.ctl.values[1])
C38_SelectionChangesPage ==
  [][\A op \in PendingOps({"defer"}) :
       (/\ op.ctl.type = "select" /\ op.ctl.id = OwnMenuId
        /\ Len(op.ctl.values) > 0
        /\ DeferResolves(op, TRUE))
         => /\ state'.currentPage # state.currentPage
                 => /\ ~Selected(op).nan
                    /\ validatePageNumber(Selected(op).val, state.totalPages)
                    /\ Selected(op).val # state.currentPage
                    /\ state'.currentPage = Selected(op).val
            /\ (Selected(op).nan
                  \/ ~validatePageNumber(Selected(op).val, state.totalPages))
                 => /\ events' = Append(events, ErrorEv("component"))
                    /\ pending' = pending (-) SetToBag({op})
                    /\ state' = state /\ shown' = shown
            /\ (~Selected(op).nan /\ Selected(op).val = state.currentPage)
                 => /\ events' = events
                    /\ pending' = pending (-) SetToBag({op})
                    /\ state' = state /\ shown' = shown]_vars
C38_Witness ==
  /\ kind \in {"select", "hybrid"} /\ state.isActive /\ state.message
  /\ \E op \in PendingOps({"goto"}) :
       op.src = "control" /\ op.page = state.currentPage /\ op.page # op.oldPage
  /\ events # <<>> /\ events[Len(events)] = ErrorEv("component")

\* C39: after any calls of configureLinx, setEmojis, setTimeout and
\* setEphemeral, resetLinxConfig() leaves getLinxConfig() equal in every field
\* to the configuration as it is written, and a session constructed after it
\* without options has the default timeout and ephemeral values.
C39_ResetRestoresDefaults ==
  [][/\ ResetLinxConfig => currentConfig' = defaultConfig
     /\ (Construct /\ hist.last.call = "resetLinxConfig")
          => /\ options'.timeout = DEFAULT_TIMEOUT
             /\ options'.ephemeral = defaultConfig.defaults.ephemeral]_vars

\* C40: createActionRows returns at most 5 rows, each holding at most
\* 5 buttons or one select menu alone, with the components in input order.
RECURSIVE Flatten(_)
Flatten(rows) == IF rows = <<>> THEN <<>> ELSE Head(rows) \o Flatten(Tail(rows))
C40_RowsWithinLimits ==
  /\ Len(built.rows) <= MAX_ROWS_PER_MESSAGE
  /\ \A r \in DOMAIN built.rows :
       LET row == built.rows[r]
       IN \/ /\ Len(row) \in 1..MAX_BUTTON_PER_ROW
             /\ \A k \in DOMAIN row : row[k].type = "button"
          \/ Len(row) = 1 /\ row[1].type = "select"
  /\ Len(Flatten(built.rows)) <= Len(built.components)
  /\ Flatten(built.rows) = SubSeq(built.components, 1, Len(Flatten(built.rows)))

====
